---- MODULE Spec2Model ----
(***************************************************************************)
(* The cart-to-order pipeline of be-payplex: the cart controller's         *)
(* handlers (addToCart, updateCartQuantity, removeFromCart, clearCart,     *)
(* checkout) running as concurrent requests against the User, Product and  *)
(* Order collections.                                                      *)
(*                                                                         *)
(* A handler is an async function: it runs without interruption from one   *)
(* `await` to the next, and other requests run while it waits.  Each       *)
(* action below is one database operation of a handler together with the   *)
(* synchronous code that follows it up to the next `await`.               *)
(*                                                                         *)
(* Money is kept in integers: prices and raw sums in thousandths of the    *)
(* currency unit ("mills"), stored order amounts in hundredths (cents).    *)
(***************************************************************************)
EXTENDS Integers, Sequences, FiniteSets, TLC

Users == {"u1", "u2"}
Products == {"p1", "p2"}

\* Number of requests a behaviour may issue (request slots 1..MaxReq).
MaxReq == 3
\* Largest quantity a request body may carry (-1 and 0 are the invalid ones).
MaxQty == 2
\* Stock every product starts with.
InitStock == 3

\* Number of requests in the behaviours that issue checkout requests alone.
MaxCheckout == 2

\* Number of requests in the behaviours of the whole shop, and the stock
\* every product starts with there.
MaxShop == 2
ShopStock == 1

Reqs == 1..MaxReq
Quantities == (-1)..MaxQty

\* Product.price per product, in mills (10.046 and 5.005).
Price == [p \in Products |-> IF p = "p1" THEN 10046 ELSE 5005]

\* Product.productName per product.
ProductName == [p \in Products |-> IF p = "p1" THEN "Pen" ELSE "Ink"]

\* prod: the Product documents but for their quantity (exists, productName,
\* price, status); stock: Product.quantity; cart, ver: user.cart and the
\* version of the user document; orders: the Order collection; req: the
\* requests.
VARIABLES prod, stock, cart, ver, orders, req

vars == <<prod, stock, cart, ver, orders, req>>

----------------------------------------------------------------------------
(* Pure helpers                                                            *)

\* A cart line as stored in user.cart.
Line(p, q) == [productId |-> p, quantity |-> q]

\* user.cart.find(item => item.productId.toString() === productId):
\* the index of the first line of the product, 0 when there is none.
FindLine(c, p) ==
    IF \E k \in 1..Len(c) : c[k].productId = p
    THEN CHOOSE k \in 1..Len(c) :
            /\ c[k].productId = p
            /\ \A j \in 1..(k - 1) : c[j].productId # p
    ELSE 0

\* user.cart.filter(item => item.productId.toString() !== productId)
RECURSIVE FilterOut(_, _)
FilterOut(c, p) ==
    IF c = <<>> THEN <<>>
    ELSE IF Head(c).productId = p THEN FilterOut(Tail(c), p)
    ELSE <<Head(c)>> \o FilterOut(Tail(c), p)

\* Math.round(num / den) for num >= 0, den > 0: halves round up.
MathRound(num, den) == (2 * num + den) \div (2 * den)

\* String(n): the decimal digits of n >= 0, most significant first.
RECURSIVE Digits(_)
Digits(n) == IF n < 10 THEN <<n>> ELSE Append(Digits(n \div 10), n % 10)

\* s.padStart(width, "0")
RECURSIVE PadStart(_, _)
PadStart(s, width) == IF Len(s) >= width THEN s ELSE PadStart(<<0>> \o s, width)

\* `ORD-${String(orderCount + 1).padStart(3, "0")}`: the digits after "ORD-".
OrderIdOf(orderCount) == PadStart(Digits(orderCount + 1), 3)

\* The number an order id's digits denote.
RECURSIVE OrderNumber(_)
OrderNumber(id) ==
    IF id = <<>> THEN 0
    ELSE 10 * OrderNumber(SubSeq(id, 1, Len(id) - 1)) + id[Len(id)]

\* orderItems: one snapshot per cart line, name and price from the populated
\* product.
OrderItems(c, pop) ==
    [k \in 1..Len(c) |->
        [productId   |-> c[k].productId,
         productName |-> pop[k].productName,
         price       |-> pop[k].price,
         quantity    |-> c[k].quantity,
         subtotal    |-> pop[k].price * c[k].quantity]]

\* orderItems.reduce((sum, item) => sum + item.subtotal, 0), in mills.
RECURSIVE RawSubtotal(_)
RawSubtotal(items) ==
    IF items = <<>> THEN 0
    ELSE Head(items).subtotal + RawSubtotal(Tail(items))

\* Math.round(subtotal * 100) / 100, in cents.
StoredSubtotal(raw) == MathRound(raw, 10)

\* Math.round(subtotal * 0.1 * 100) / 100, in cents: from the raw subtotal.
Tax(raw) == MathRound(raw, 100)

\* Math.round((subtotal + tax) * 100) / 100, in cents: raw subtotal plus tax.
Total(raw, tax) == MathRound(raw + 10 * tax, 10)

----------------------------------------------------------------------------
(* Requests                                                                *)

\* A body of updateProduct that names no field: a field left out and a field
\* that is 0 or "" are alike to the handler's if (field) tests.
NoEdit == [productName |-> "", price |-> 0, quantity |-> 0, status |-> ""]

\* A request slot that has not been used yet.  A request's record holds its
\* inputs (userId, productId, quantity), its place in the handler (pc, i), its
\* locals (the user document read: docCart, docV, and pop, the products
\* populate() put in its lines; the product
\* quantity read: prodQ; orderCount), its answer (status, kind) and two
\* history fields: applied, the decrements it has made, and wrote, whether
\* its user.save() has changed the stored cart.  The quantity of a request
\* body is a number counted in halves: quantity is its whole part and frac
\* the half left over, so that 1.5 is quantity 1, frac 1.  failedAt is the
\* database operation that rejected, for a request a storage failure ended.
\* total and got are what getCart and getOrderById return, orderId is the
\* id getOrderById was asked for, and body is the body of updateProduct.
Idle ==
    [op |-> "none", userId |-> "u1", productId |-> "p1", quantity |-> 0,
     frac |-> 0, pc |-> "idle", docCart |-> <<>>, docV |-> 0, pop |-> <<>>,
     prodQ |-> 0, i |-> 0, orderCount |-> 0, applied |-> 0, wrote |-> FALSE,
     status |-> 0, kind |-> "none", failedAt |-> "none", total |-> 0,
     got |-> <<>>, orderId |-> 0, body |-> NoEdit]

\* The products as created: active, with their names and prices.
InitProducts ==
    [p \in Products |->
        [exists |-> TRUE, productName |-> ProductName[p], price |-> Price[p],
         status |-> "active"]]

\* Slots are taken in order.
CanStart(r) ==
    /\ req[r].op = "none"
    /\ \A s \in Reqs : s < r => req[s].op # "none"

\* res.status(code).json(...): the handler has answered and is over.
Respond(r, rec, code, kind) ==
    req' = [req EXCEPT ![r] = [rec EXCEPT !.pc = "done", !.status = code,
                                          !.kind = kind]]

----------------------------------------------------------------------------
(* user.save(): what Mongoose sends for each kind of change to user.cart.  *)
(* A push is an atomic $push that also increments the document version; a  *)
(* change of one element's field is a positional $set guarded by the       *)
(* version the document was loaded with; an assignment of the whole array  *)
(* is a $set guarded by that version, which it increments.  A guarded save *)
(* that finds another version throws (VersionError).                       *)

VersionOk(u, v) == ver[u] = v

\* user.cart.push(line); user.save()
SavePush(u, line) ==
    /\ cart' = [cart EXCEPT ![u] = Append(@, line)]
    /\ ver' = [ver EXCEPT ![u] = @ + 1]

\* cartItem.quantity = q; user.save()
SaveSetQuantity(u, k, q) ==
    /\ cart' = [cart EXCEPT ![u][k].quantity = q]
    /\ UNCHANGED ver

\* user.cart = c; user.save()
SaveSetCart(u, c) ==
    /\ cart' = [cart EXCEPT ![u] = c]
    /\ ver' = [ver EXCEPT ![u] = @ + 1]

\* A decrement of one unit whatever the line's quantity.
DecrementByOne(p, q) == stock' = [stock EXCEPT ![p] = @ - 1]

\* Product.findByIdAndUpdate(id, { $inc: { quantity: -q } }): an
\* unconditional atomic increment.
DecrementStock(p, q) == stock' = [stock EXCEPT ![p] = @ - q]

----------------------------------------------------------------------------
(* addToCart                                                               *)

\* The whole number q as the number of a request body, in halves.
Number(q) == 2 * q

\* Number.isInteger(n)
IsInteger(n) == n % 2 = 0

\* The request record of an arriving request with quantity n in its body.
Arrive(op, u, p, n) ==
    [Idle EXCEPT !.op = op, !.userId = u, !.productId = p,
                 !.quantity = n \div 2, !.frac = n % 2]

\* !quantity
QuantityMissing(n) == n = 0

\* quantity <= 0, the integer test left out.
QuantityNotPositive(n) == n <= 0

\* quantity <= 0 || !Number.isInteger(quantity)
QuantityInvalid(n) == n <= 0 \/ ~IsInteger(n)

\* The quantity of the product's line in a cart, 0 when it has none.
LineQuantity(c, p) == IF FindLine(c, p) = 0 THEN 0 ELSE c[FindLine(c, p)].quantity

\* addToCart with the merged quantity left unchecked.
AddInsufficientUnmerged(pq, c, p, q) == pq < q

\* The two stock checks of addToCart: the requested quantity alone, then,
\* for a product already in the cart, the merged quantity.
AddInsufficient(pq, c, p, q) ==
    \/ pq < q
    \/ FindLine(c, p) # 0 /\ LineQuantity(c, p) + q > pq

\* Input validation: answered before any database operation.
AddReject(r, u, p, n) ==
    /\ CanStart(r)
    /\ QuantityMissing(n) \/ QuantityInvalid(n)
    /\ Respond(r, Arrive("add", u, p, n),
               400, IF QuantityMissing(n) THEN "Required" ELSE "InvalidQuantity")
    /\ UNCHANGED <<prod, stock, cart, ver, orders>>

\* User.findById(userId)
AddFindUser(r, u, p, n) ==
    /\ CanStart(r)
    /\ ~QuantityMissing(n) /\ ~QuantityInvalid(n)
    /\ req' = [req EXCEPT ![r] =
                 [Arrive("add", u, p, n) EXCEPT
                     !.pc = "findProduct", !.docCart = cart[u],
                     !.docV = ver[u]]]
    /\ UNCHANGED <<prod, stock, cart, ver, orders>>

\* Product.findById(productId), the stock checks, the change to user.cart
AddFindProduct(r) ==
    /\ req[r].op = "add" /\ req[r].pc = "findProduct"
    /\ LET rec == [req[r] EXCEPT !.prodQ = stock[req[r].productId]] IN
         IF ~prod[rec.productId].exists
         THEN Respond(r, req[r], 404, "ProductNotFound")
         ELSE IF AddInsufficient(rec.prodQ, rec.docCart, rec.productId,
                                 rec.quantity)
         THEN Respond(r, rec, 400, "InsufficientStock")
         ELSE req' = [req EXCEPT ![r] = [rec EXCEPT !.pc = "save"]]
    /\ UNCHANGED <<prod, stock, cart, ver, orders>>

\* A save of the cart that also takes the quantity from the stock.
AddSaveReserving(r) ==
    /\ req[r].op = "add" /\ req[r].pc = "save"
    /\ LET rec == req[r] IN
         /\ SavePush(rec.userId, Line(rec.productId, rec.quantity))
         /\ DecrementStock(rec.productId, rec.quantity)
         /\ req' = [req EXCEPT ![r].pc = "respond", ![r].wrote = TRUE]
    /\ UNCHANGED <<prod, orders>>

\* user.save()
AddSave(r) ==
    /\ req[r].op = "add" /\ req[r].pc = "save"
    /\ LET rec == req[r]
           k == FindLine(rec.docCart, rec.productId) IN
         IF k = 0
         THEN /\ SavePush(rec.userId, Line(rec.productId, rec.quantity))
              /\ req' = [req EXCEPT ![r].pc = "respond", ![r].wrote = TRUE]
         ELSE IF VersionOk(rec.userId, rec.docV)
         THEN /\ SaveSetQuantity(rec.userId, k,
                                 rec.docCart[k].quantity + rec.quantity)
              /\ req' = [req EXCEPT ![r].pc = "respond", ![r].wrote = TRUE]
         ELSE /\ Respond(r, rec, 500, "VersionError")
              /\ UNCHANGED <<cart, ver>>
    /\ UNCHANGED <<prod, stock, orders>>

\* User.findById(userId).populate("cart.productId"); res.status(200)
AddRespond(r) ==
    /\ req[r].op = "add" /\ req[r].pc = "respond"
    /\ Respond(r, req[r], 200, "ok")
    /\ UNCHANGED <<prod, stock, cart, ver, orders>>

----------------------------------------------------------------------------
(* updateCartQuantity                                                      *)

UpdReject(r, u, p, n) ==
    /\ CanStart(r)
    /\ QuantityMissing(n) \/ QuantityInvalid(n)
    /\ Respond(r, Arrive("update", u, p, n),
               400, "InvalidQuantity")
    /\ UNCHANGED <<prod, stock, cart, ver, orders>>

\* User.findById(userId)
UpdFindUser(r, u, p, n) ==
    /\ CanStart(r)
    /\ ~QuantityMissing(n) /\ ~QuantityInvalid(n)
    /\ req' = [req EXCEPT ![r] =
                 [Arrive("update", u, p, n) EXCEPT
                     !.pc = "findProduct", !.docCart = cart[u],
                     !.docV = ver[u]]]
    /\ UNCHANGED <<prod, stock, cart, ver, orders>>

\* Product.findById(productId), the stock check, the look-up of the line
UpdFindProduct(r) ==
    /\ req[r].op = "update" /\ req[r].pc = "findProduct"
    /\ LET rec == [req[r] EXCEPT !.prodQ = stock[req[r].productId]] IN
         IF ~prod[rec.productId].exists
         THEN Respond(r, req[r], 404, "ProductNotFound")
         ELSE IF rec.quantity > rec.prodQ
         THEN Respond(r, rec, 400, "InsufficientStock")
         ELSE IF FindLine(rec.docCart, rec.productId) = 0
         THEN Respond(r, rec, 404, "LineNotFound")
         ELSE req' = [req EXCEPT ![r] = [rec EXCEPT !.pc = "save"]]
    /\ UNCHANGED <<prod, stock, cart, ver, orders>>

\* user.save()
UpdSave(r) ==
    /\ req[r].op = "update" /\ req[r].pc = "save"
    /\ LET rec == req[r] IN
         IF VersionOk(rec.userId, rec.docV)
         THEN /\ SaveSetQuantity(rec.userId, FindLine(rec.docCart, rec.productId),
                                 rec.quantity)
              /\ req' = [req EXCEPT ![r].pc = "respond", ![r].wrote = TRUE]
         ELSE /\ Respond(r, rec, 500, "VersionError")
              /\ UNCHANGED <<cart, ver>>
    /\ UNCHANGED <<prod, stock, orders>>

\* User.findById(userId).populate("cart.productId"); res.status(200)
UpdRespond(r) ==
    /\ req[r].op = "update" /\ req[r].pc = "respond"
    /\ Respond(r, req[r], 200, "ok")
    /\ UNCHANGED <<prod, stock, cart, ver, orders>>

----------------------------------------------------------------------------
(* removeFromCart and clearCart                                            *)

\* User.findById(userId); user.cart = user.cart.filter(...)
RemFindUser(r, u, p) ==
    /\ CanStart(r)
    /\ req' = [req EXCEPT ![r] =
                 [Idle EXCEPT !.op = "remove", !.userId = u, !.productId = p,
                              !.pc = "save", !.docCart = cart[u],
                              !.docV = ver[u]]]
    /\ UNCHANGED <<prod, stock, cart, ver, orders>>

\* user.save(): nothing is sent when the filter removed no line.
RemSave(r) ==
    /\ req[r].op = "remove" /\ req[r].pc = "save"
    /\ LET rec == req[r]
           c == FilterOut(rec.docCart, rec.productId) IN
         IF c = rec.docCart
         THEN /\ req' = [req EXCEPT ![r].pc = "respond"]
              /\ UNCHANGED <<cart, ver>>
         ELSE IF VersionOk(rec.userId, rec.docV)
         THEN /\ SaveSetCart(rec.userId, c)
              /\ req' = [req EXCEPT ![r].pc = "respond", ![r].wrote = TRUE]
         ELSE /\ Respond(r, rec, 500, "VersionError")
              /\ UNCHANGED <<cart, ver>>
    /\ UNCHANGED <<prod, stock, orders>>

\* User.findById(userId).populate("cart.productId"); res.status(200)
RemRespond(r) ==
    /\ req[r].op = "remove" /\ req[r].pc = "respond"
    /\ Respond(r, req[r], 200, "ok")
    /\ UNCHANGED <<prod, stock, cart, ver, orders>>

\* User.findById(userId); user.cart = []
ClrFindUser(r, u) ==
    /\ CanStart(r)
    /\ req' = [req EXCEPT ![r] =
                 [Idle EXCEPT !.op = "clear", !.userId = u, !.pc = "save",
                              !.docCart = cart[u], !.docV = ver[u]]]
    /\ UNCHANGED <<prod, stock, cart, ver, orders>>

\* user.save(); res.status(200): nothing is sent for a cart already empty.
ClrSave(r) ==
    /\ req[r].op = "clear" /\ req[r].pc = "save"
    /\ LET rec == req[r] IN
         IF rec.docCart = <<>>
         THEN /\ Respond(r, rec, 200, "ok")
              /\ UNCHANGED <<cart, ver>>
         ELSE IF VersionOk(rec.userId, rec.docV)
         THEN /\ SaveSetCart(rec.userId, <<>>)
              /\ Respond(r, [rec EXCEPT !.wrote = TRUE], 200, "ok")
         ELSE /\ Respond(r, rec, 500, "VersionError")
              /\ UNCHANGED <<cart, ver>>
    /\ UNCHANGED <<prod, stock, orders>>

----------------------------------------------------------------------------
(* checkout                                                                *)

\* The Order document built at lines 300-310 from the request's locals.
NewOrder(r, rec) ==
    LET items == OrderItems(rec.docCart, rec.pop)
        raw == RawSubtotal(items) IN
    [_id           |-> r,
     userId        |-> rec.userId,
     orderId       |-> OrderIdOf(rec.orderCount),
     items         |-> items,
     subtotal      |-> StoredSubtotal(raw),
     tax           |-> Tax(raw),
     total         |-> Total(raw, Tax(raw)),
     status        |-> "pending",
     paymentStatus |-> "pending"]

\* Order.countDocuments()
CountDocuments == Len(orders)

\* order.save(): the Order collection in the order its documents were saved.
SaveOrder(o) == orders' = Append(orders, o)

\* product.quantity < cartItem.quantity
CheckoutInsufficient(pq, q) == pq < q

\* populate("cart.productId"): each line's productId replaced by the product
\* document, or by null (found = FALSE) when the product is gone.
Populated(p) ==
    IF prod[p].exists
    THEN [found |-> TRUE, productName |-> prod[p].productName,
          price |-> prod[p].price]
    ELSE [found |-> FALSE, productName |-> "", price |-> 0]

PopulateCart(c) == [k \in 1..Len(c) |-> Populated(c[k].productId)]

\* User.findById(userId).populate("cart.productId"); the empty-cart check
CkFindUser(r, u) ==
    /\ CanStart(r)
    /\ LET rec == [Idle EXCEPT !.op = "checkout", !.userId = u,
                               !.docCart = cart[u], !.docV = ver[u],
                               !.pop = PopulateCart(cart[u])] IN
         IF Len(rec.docCart) = 0
         THEN Respond(r, rec, 400, "EmptyCart")
         ELSE req' = [req EXCEPT ![r] = [rec EXCEPT !.pc = "validate", !.i = 1]]
    /\ UNCHANGED <<prod, stock, cart, ver, orders>>

\* A validation loop that takes each line's quantity from the stock as it
\* validates the line.
CkValidateReserving(r) ==
    /\ req[r].op = "checkout" /\ req[r].pc = "validate"
    /\ LET rec == req[r]
           line == rec.docCart[rec.i] IN
         IF CheckoutInsufficient(stock[line.productId], line.quantity)
         THEN /\ Respond(r, rec, 400, "InsufficientStock")
              /\ UNCHANGED stock
         ELSE /\ DecrementStock(line.productId, line.quantity)
              /\ IF rec.i < Len(rec.docCart)
                 THEN req' = [req EXCEPT ![r].i = rec.i + 1,
                                         ![r].applied = rec.applied + 1]
                 ELSE req' = [req EXCEPT ![r].pc = "count", ![r].i = 0,
                                         ![r].applied = rec.applied + 1]
    /\ UNCHANGED <<prod, cart, ver, orders>>

\* A validation loop that, finding too little stock for a line, reads the
\* product again until there is enough.
CkValidateWaiting(r) ==
    /\ req[r].op = "checkout" /\ req[r].pc = "validate"
    /\ LET rec == req[r]
           line == rec.docCart[rec.i] IN
         IF CheckoutInsufficient(stock[line.productId], line.quantity)
         THEN UNCHANGED req
         ELSE IF rec.i < Len(rec.docCart)
         THEN req' = [req EXCEPT ![r].i = rec.i + 1]
         ELSE req' = [req EXCEPT ![r].pc = "count", ![r].i = 0]
    /\ UNCHANGED <<prod, stock, cart, ver, orders>>

\* One turn of the validation loop: Product.findById(cartItem.productId._id)
\* and the stock check; after the last line, the order items and totals.
\* For a line whose populated product is null, cartItem.productId._id throws
\* (TypeError) and the catch block answers.
CkValidate(r) ==
    /\ req[r].op = "checkout" /\ req[r].pc = "validate"
    /\ LET rec == req[r]
           line == rec.docCart[rec.i] IN
         IF ~rec.pop[rec.i].found
         THEN Respond(r, rec, 500, "TypeError")
         ELSE IF ~prod[line.productId].exists
         THEN Respond(r, rec, 404, "ProductNotFound")
         ELSE IF CheckoutInsufficient(stock[line.productId], line.quantity)
         THEN Respond(r, [rec EXCEPT !.prodQ = stock[line.productId]],
                      400, "InsufficientStock")
         ELSE IF rec.i < Len(rec.docCart)
         THEN req' = [req EXCEPT ![r].i = rec.i + 1]
         ELSE req' = [req EXCEPT ![r].pc = "count", ![r].i = 0]
    /\ UNCHANGED <<prod, stock, cart, ver, orders>>

\* Order.countDocuments(); the order id and the Order document
CkCount(r) ==
    /\ req[r].op = "checkout" /\ req[r].pc = "count"
    /\ req' = [req EXCEPT ![r].orderCount = CountDocuments,
                          ![r].pc = "saveOrder"]
    /\ UNCHANGED <<prod, stock, cart, ver, orders>>

\* order.save()
CkSaveOrder(r) ==
    /\ req[r].op = "checkout" /\ req[r].pc = "saveOrder"
    /\ SaveOrder(NewOrder(r, req[r]))
    /\ req' = [req EXCEPT ![r].pc = "decrement", ![r].i = 1]
    /\ UNCHANGED <<prod, stock, cart, ver>>

\* One turn of the decrement loop; after the last line, user.cart = [].
\* findByIdAndUpdate finds no document for a product deleted meanwhile and
\* changes nothing.
CkDecrement(r) ==
    /\ req[r].op = "checkout" /\ req[r].pc = "decrement"
    /\ LET rec == req[r]
           line == rec.docCart[rec.i] IN
         /\ IF prod[line.productId].exists
            THEN DecrementStock(line.productId, line.quantity)
            ELSE UNCHANGED stock
         /\ IF rec.i < Len(rec.docCart)
            THEN req' = [req EXCEPT ![r].i = rec.i + 1,
                                    ![r].applied = rec.applied + 1]
            ELSE req' = [req EXCEPT ![r].pc = "saveUser", ![r].i = 0,
                                    ![r].applied = rec.applied + 1]
    /\ UNCHANGED <<prod, cart, ver, orders>>

\* user.save(); res.status(201)
CkSaveUser(r) ==
    /\ req[r].op = "checkout" /\ req[r].pc = "saveUser"
    /\ LET rec == req[r] IN
         IF VersionOk(rec.userId, rec.docV)
         THEN /\ SaveSetCart(rec.userId, <<>>)
              /\ Respond(r, [rec EXCEPT !.wrote = TRUE], 201, "ok")
         ELSE /\ Respond(r, rec, 500, "VersionError")
              /\ UNCHANGED <<cart, ver>>
    /\ UNCHANGED <<prod, stock, orders>>

----------------------------------------------------------------------------
(* getCart and getOrderById                                                *)

\* user.cart.reduce(sum + item.productId.price * item.quantity, 0)
RECURSIVE CartTotal(_, _)
CartTotal(c, pop) ==
    IF c = <<>> THEN 0
    ELSE pop[1].price * c[1].quantity + CartTotal(Tail(c), Tail(pop))

\* User.findById(userId).populate("cart.productId") and the total: for a
\* line whose populated product is null, item.productId.price throws
\* (TypeError) and the catch block answers.
GetCart(r, u) ==
    /\ CanStart(r)
    /\ LET rec == [Idle EXCEPT !.op = "getCart", !.userId = u,
                               !.docCart = cart[u], !.docV = ver[u],
                               !.pop = PopulateCart(cart[u])] IN
         IF \E k \in 1..Len(rec.pop) : ~rec.pop[k].found
         THEN Respond(r, rec, 500, "TypeError")
         ELSE Respond(r, [rec EXCEPT !.total = CartTotal(rec.docCart, rec.pop)],
                      200, "ok")
    /\ UNCHANGED <<prod, stock, cart, ver, orders>>

\* An orderId that is not the text of an ObjectId, such as "ORD-001".
Malformed == 0

\* Order.findById(orderId): the orders whose _id is orderId.
FindOrder(id) == {k \in 1..Len(orders) : orders[k]._id = id}

\* order.userId.toString() === userId
OwnedBy(o, u) == o.userId = u

\* Order.findById(orderId).populate("items.productId") and the checks:
\* findById throws (CastError) for an id that is not an ObjectId, and the
\* catch block answers.
GetOrderById(r, u, id) ==
    /\ CanStart(r)
    /\ LET rec == [Idle EXCEPT !.op = "getOrder", !.userId = u,
                               !.orderId = id] IN
         IF id = Malformed
         THEN Respond(r, rec, 500, "CastError")
         ELSE IF FindOrder(id) = {}
         THEN Respond(r, rec, 404, "NotFound")
         ELSE LET o == orders[CHOOSE k \in FindOrder(id) : TRUE] IN
              IF ~OwnedBy(o, u)
              THEN Respond(r, rec, 403, "Unauthorized")
              ELSE Respond(r, [rec EXCEPT !.got = <<o>>], 200, "ok")
    /\ UNCHANGED <<prod, stock, cart, ver, orders>>

----------------------------------------------------------------------------
(* updateProduct and deleteProduct                                         *)

Sellers == {"s1", "s2"}

\* Product.seller per product.
Seller == [p \in Products |-> IF p = "p1" THEN "s1" ELSE "s2"]

\* The bodies of updateProduct: a change of status, of name and price (in
\* mills), of quantity.
ProductEdits ==
    {[NoEdit EXCEPT !.status = "inactive"],
     [NoEdit EXCEPT !.productName = "Quill", !.price = 20000],
     [NoEdit EXCEPT !.quantity = 2]}

\* Product.findById(productId) and the seller check
FindOwnProduct(r, rec, next) ==
    IF ~prod[rec.productId].exists
    THEN Respond(r, rec, 404, "ProductNotFound")
    ELSE IF Seller[rec.productId] # rec.userId
    THEN Respond(r, rec, 403, "Unauthorized")
    ELSE req' = [req EXCEPT ![r] =
                   [rec EXCEPT !.pc = next, !.prodQ = stock[rec.productId],
                               !.pop = <<prod[rec.productId]>>]]

\* updateProduct up to product.save()
UpdateProductFind(r, s, p, b) ==
    /\ CanStart(r)
    /\ FindOwnProduct(r, [Idle EXCEPT !.op = "updateProduct", !.userId = s,
                                      !.productId = p, !.body = b], "save")
    /\ UNCHANGED <<prod, stock, cart, ver, orders>>

\* The document after the if (field) assignments of updateProduct.
Edited(doc, b) ==
    [doc EXCEPT !.productName = IF b.productName # "" THEN b.productName ELSE @,
                !.price = IF b.price # 0 THEN b.price ELSE @,
                !.status = IF b.status # "" THEN b.status ELSE @]

\* product.save() followed by an edit of the items of every order.
UpdateProductSaveRewriting(r) ==
    /\ req[r].op = "updateProduct" /\ req[r].pc = "save"
    /\ LET rec == req[r]
           b == rec.body
           p == rec.productId IN
         /\ prod' = [prod EXCEPT ![p] = Edited(@, b)]
         /\ orders' = [k \in 1..Len(orders) |->
               [orders[k] EXCEPT !.items =
                  [j \in 1..Len(@) |->
                     IF @[j].productId = p
                     THEN [@[j] EXCEPT !.price = prod'[p].price,
                                       !.productName = prod'[p].productName]
                     ELSE @[j]]]]
         /\ Respond(r, rec, 200, "ok")
    /\ UNCHANGED <<stock, cart, ver>>

\* product.save(): the paths whose value changed are written, each to the
\* value the handler gave it; a document with changed paths that is no
\* longer stored makes save throw (DocumentNotFoundError).  Then
\* product.populate("seller") and res.status(200).
UpdateProductSave(r) ==
    /\ req[r].op = "updateProduct" /\ req[r].pc = "save"
    /\ LET rec == req[r]
           b == rec.body
           p == rec.productId
           doc == rec.pop[1]
           newQ == IF b.quantity # 0 THEN b.quantity ELSE rec.prodQ IN
         IF Edited(doc, b) = doc /\ newQ = rec.prodQ
         THEN /\ Respond(r, rec, 200, "ok")
              /\ UNCHANGED <<prod, stock>>
         ELSE IF ~prod[p].exists
         THEN /\ Respond(r, rec, 500, "DocumentNotFound")
              /\ UNCHANGED <<prod, stock>>
         ELSE /\ prod' = [prod EXCEPT ![p] =
                   [@ EXCEPT
                      !.productName = IF Edited(doc, b).productName # doc.productName
                                      THEN b.productName ELSE @,
                      !.price = IF Edited(doc, b).price # doc.price
                                THEN b.price ELSE @,
                      !.status = IF Edited(doc, b).status # doc.status
                                 THEN b.status ELSE @]]
              /\ stock' = [stock EXCEPT ![p] = IF newQ # rec.prodQ THEN newQ ELSE @]
              /\ Respond(r, rec, 200, "ok")
    /\ UNCHANGED <<cart, ver, orders>>

\* deleteProduct up to Product.findByIdAndDelete
DeleteProductFind(r, s, p) ==
    /\ CanStart(r)
    /\ FindOwnProduct(r, [Idle EXCEPT !.op = "deleteProduct", !.userId = s,
                                      !.productId = p], "delete")
    /\ UNCHANGED <<prod, stock, cart, ver, orders>>

\* Product.findByIdAndDelete(productId); res.status(200)
DeleteProductDelete(r) ==
    /\ req[r].op = "deleteProduct" /\ req[r].pc = "delete"
    /\ prod' = [prod EXCEPT ![req[r].productId].exists = FALSE]
    /\ Respond(r, req[r], 200, "ok")
    /\ UNCHANGED <<stock, cart, ver, orders>>

\* A step of a product request already under way.
ProductStep(r) ==
    \/ UpdateProductSave(r)
    \/ DeleteProductDelete(r)

\* A step of a checkout request already under way.
CheckoutStep(r) ==
    \/ CkValidate(r)
    \/ CkCount(r)
    \/ CkSaveOrder(r)
    \/ CkDecrement(r)
    \/ CkSaveUser(r)

\* A step of a cart request already under way.
CartStep(r) ==
    \/ AddFindProduct(r)
    \/ AddSave(r)
    \/ AddRespond(r)
    \/ UpdFindProduct(r)
    \/ UpdSave(r)
    \/ UpdRespond(r)
    \/ RemSave(r)
    \/ RemRespond(r)
    \/ ClrSave(r)

\* The arrival of a cart request, its quantity a whole number.
CartStart(r) ==
    \/ \E u \in Users, p \in Products, q \in Quantities :
          \/ AddReject(r, u, p, Number(q))
          \/ AddFindUser(r, u, p, Number(q))
          \/ UpdReject(r, u, p, Number(q))
          \/ UpdFindUser(r, u, p, Number(q))
    \/ \E u \in Users, p \in Products : RemFindUser(r, u, p)
    \/ \E u \in Users : ClrFindUser(r, u)

Init ==
    /\ prod = InitProducts
    /\ stock = [p \in Products |-> InitStock]
    /\ cart = [u \in Users |-> <<>>]
    /\ ver = [u \in Users |-> 0]
    /\ orders = <<>>
    /\ req = [r \in Reqs |-> Idle]

Next ==
    \E r \in Reqs :
        \/ CartStart(r)
        \/ CartStep(r)
        \/ \E u \in Users : CkFindUser(r, u)
        \/ CheckoutStep(r)

\* Every request of every kind, from empty carts.
Spec == Init /\ [][Next]_vars

----------------------------------------------------------------------------
(* Checkout requests alone, against carts already filled.                  *)

\* The carts a user can have built with addToCart calls made one after the
\* other against the initial stock: one line per product, in any order, each
\* quantity between 1 and MaxQty and within the stock.
InitCarts ==
    {<<>>}
    \cup {<<Line(p, q)>> : p \in Products, q \in 1..MaxQty}
    \cup {<<Line(p1, q1), Line(p2, q2)>> :
            p1 \in Products, p2 \in Products, q1 \in 1..MaxQty, q2 \in 1..MaxQty}

CheckoutInit ==
    /\ prod = InitProducts
    /\ stock = [p \in Products |-> InitStock]
    /\ cart \in [Users -> {c \in InitCarts :
                    /\ \A k \in 1..Len(c) : c[k].quantity <= InitStock
                    /\ \A j, k \in 1..Len(c) :
                          j # k => c[j].productId # c[k].productId}]
    /\ ver = [u \in Users |-> Len(cart[u])]
    /\ orders = <<>>
    /\ req = [r \in Reqs |-> Idle]

CheckoutNext ==
    \E r \in 1..MaxCheckout :
        \/ \E u \in Users : CkFindUser(r, u)
        \/ CheckoutStep(r)

SpecCheckout == CheckoutInit /\ [][CheckoutNext]_vars

\* The database operation a checkout request is waiting for rejects (the
\* connection is lost, the operation times out): the handler's catch block
\* answers 500.
StorageFailure(r) ==
    /\ req[r].op = "checkout"
    /\ req[r].pc \in {"validate", "count", "saveOrder", "decrement", "saveUser"}
    /\ Respond(r, [req[r] EXCEPT !.failedAt = req[r].pc], 500, "StorageError")
    /\ UNCHANGED <<prod, stock, cart, ver, orders>>

FaultNext ==
    \/ CheckoutNext
    \/ \E r \in 1..MaxCheckout : StorageFailure(r)

\* Checkout requests with storage failures.
SpecFault == CheckoutInit /\ [][FaultNext]_vars

\* Checkout requests, every database operation a request awaits settling in
\* the end: the driver resolves each promise and the event loop then runs
\* the handler up to its next await.
SpecCheckoutFair ==
    /\ CheckoutInit
    /\ [][CheckoutNext]_vars
    /\ \A r \in 1..MaxCheckout : WF_vars(CheckoutStep(r))

----------------------------------------------------------------------------
(* The whole shop: the cart handlers, getCart, checkout, getOrderById and  *)
(* the product handlers, on carts filled beforehand.                       *)

\* The carts sequential addToCart calls of quantity 1 build.
ShopCarts ==
    {<<>>, <<Line("p1", 1)>>, <<Line("p1", 1), Line("p2", 1)>>}

\* The quantities of the request bodies, in halves: -1, 0, 1, 1.5 and 2.
ShopQuantities == {-2, 0, 2, 3, 4}

\* The order ids asked for: those the requests can have given, and one
\* that is no ObjectId.
OrderIds == {Malformed} \cup (1..MaxShop)

ShopInit ==
    /\ prod = InitProducts
    /\ stock = [p \in Products |-> ShopStock]
    /\ cart \in [Users -> ShopCarts]
    /\ ver = [u \in Users |-> Len(cart[u])]
    /\ orders = <<>>
    /\ req = [r \in Reqs |-> Idle]

\* The arrival of a request.
ShopStart(r) ==
    \/ \E u \in Users, p \in Products, n \in ShopQuantities :
          \/ AddReject(r, u, p, n)
          \/ AddFindUser(r, u, p, n)
          \/ UpdReject(r, u, p, n)
          \/ UpdFindUser(r, u, p, n)
    \/ \E u \in Users, p \in Products : RemFindUser(r, u, p)
    \/ \E u \in Users :
          \/ ClrFindUser(r, u)
          \/ GetCart(r, u)
          \/ CkFindUser(r, u)
    \/ \E u \in Users, id \in OrderIds : GetOrderById(r, u, id)
    \/ \E s \in Sellers, p \in Products :
          \/ DeleteProductFind(r, s, p)
          \/ \E b \in ProductEdits : UpdateProductFind(r, s, p, b)

ShopNext ==
    \E r \in 1..MaxShop :
        \/ ShopStart(r)
        \/ CartStep(r)
        \/ CheckoutStep(r)
        \/ ProductStep(r)

SpecShop == ShopInit /\ [][ShopNext]_vars

----------------------------------------------------------------------------
(* The whole shop with its requests served one after the other: a request  *)
(* arrives only when every earlier one has answered.                       *)

\* The carts sequential addToCart calls build from the initial stock.
SeqCarts ==
    {<<>>, <<Line("p1", 2)>>, <<Line("p2", 1), Line("p1", 2)>>}

SeqInit ==
    /\ prod = InitProducts
    /\ stock = [p \in Products |-> InitStock]
    /\ cart \in [Users -> SeqCarts]
    /\ ver = [u \in Users |-> Len(cart[u])]
    /\ orders = <<>>
    /\ req = [r \in Reqs |-> Idle]

\* No request is between its arrival and its answer.
NoneInFlight == \A s \in Reqs : req[s].pc \in {"idle", "done"}

SeqNext ==
    \E r \in 1..MaxShop :
        \/ NoneInFlight /\ ShopStart(r)
        \/ CartStep(r)
        \/ CheckoutStep(r)
        \/ ProductStep(r)

SpecSequential == SeqInit /\ [][SeqNext]_vars

----------------------------------------------------------------------------
(* Notions the properties share                                            *)

CheckoutReqs == {r \in Reqs : req[r].op = "checkout"}

Succeeded(r) == req[r].pc = "done" /\ req[r].status \in {200, 201}

Failed(r) == req[r].pc = "done" /\ req[r].status \in {400, 404, 500}

InFlight(r) == req[r].op # "none" /\ req[r].pc # "done"

\* The order a request saved, if any.
OrdersOf(r) == {k \in 1..Len(orders) : orders[k]._id = r}

\* The quantity of product p in a sequence of cart lines or order items.
RECURSIVE QuantityOf(_, _)
QuantityOf(c, p) ==
    IF c = <<>> THEN 0
    ELSE (IF Head(c).productId = p THEN Head(c).quantity ELSE 0)
         + QuantityOf(Tail(c), p)

\* The quantity of product p over the carts of a set of checkout requests.
RECURSIVE CartQuantityOver(_, _)
CartQuantityOver(R, p) ==
    IF R = {} THEN 0
    ELSE LET r == CHOOSE x \in R : TRUE IN
         QuantityOf(req[r].docCart, p) + CartQuantityOver(R \ {r}, p)

\* The quantity of product p over the items of the first n persisted orders.
RECURSIVE OrderedQuantity(_, _)
OrderedQuantity(n, p) ==
    IF n = 0 THEN 0
    ELSE QuantityOf(orders[n].items, p) + OrderedQuantity(n - 1, p)

----------------------------------------------------------------------------
(* C1: no oversell.  Over any set of successful checkout requests made by  *)
(* different users, the quantities of a product in their carts sum to at   *)
(* most the product's initial stock.                                       *)
C1_NoOversell ==
    \A R \in SUBSET CheckoutReqs :
        ( /\ \A r \in R : Succeeded(r)
          /\ \A r1, r2 \in R : r1 # r2 => req[r1].userId # req[r2].userId )
        => \A p \in Products : CartQuantityOver(R, p) <= InitStock

(* C2: in every reachable state every product's quantity is a non-negative *)
(* integer.                                                                *)
C2_StockNonNegative == \A p \in Products : stock[p] \in Nat

(* C3: atomicity on failure.  A checkout request that ended in failure has *)
(* not changed the cart, has left no decrement applied to any product and  *)
(* no order in the Order collection.                                       *)
C3_AtomicOnFailure ==
    \A r \in CheckoutReqs :
        Failed(r) => ~req[r].wrote /\ req[r].applied = 0 /\ OrdersOf(r) = {}

(* C4: order ids are unique and increasing.  The orders persisted by       *)
(* checkout requests that succeeded carry pairwise distinct ids, whose     *)
(* numbers increase strictly in the order the orders were persisted.       *)
C4_OrderIdsDistinctIncreasing ==
    \A j, k \in 1..Len(orders) :
        (j < k /\ Succeeded(orders[j]._id) /\ Succeeded(orders[k]._id))
        => /\ orders[j].orderId # orders[k].orderId
           /\ OrderNumber(orders[j].orderId) < OrderNumber(orders[k].orderId)

(* C5: no double commit of one cart.  Two checkout requests of the same    *)
(* user that read the same non-empty cart (the same document version: no   *)
(* cart mutation in between) do not both persist an order, and do not both *)
(* decrement the stock.                                                    *)
C5_NoDoubleCommit ==
    \A r1, r2 \in CheckoutReqs :
        ( /\ r1 # r2
          /\ req[r1].userId = req[r2].userId
          /\ req[r1].docCart # <<>>
          /\ req[r1].docCart = req[r2].docCart
          /\ req[r1].docV = req[r2].docV )
        => /\ ~(OrdersOf(r1) # {} /\ OrdersOf(r2) # {})
           /\ ~(req[r1].applied > 0 /\ req[r2].applied > 0)

\* Two checkout requests, the only requests made, of different users whose
\* carts hold one line each of the same product, each quantity within the
\* initial stock and the two together above it; both have answered.
Contended(r1, r2) ==
    /\ r1 # r2
    /\ \A r \in Reqs : req[r].op # "none" <=> r \in {r1, r2}
    /\ req[r1].op = "checkout" /\ req[r2].op = "checkout"
    /\ req[r1].userId # req[r2].userId
    /\ req[r1].pc = "done" /\ req[r2].pc = "done"
    /\ Len(req[r1].docCart) = 1 /\ Len(req[r2].docCart) = 1
    /\ req[r1].docCart[1].productId = req[r2].docCart[1].productId
    /\ req[r1].docCart[1].quantity <= InitStock
    /\ req[r2].docCart[1].quantity <= InitStock
    /\ req[r1].docCart[1].quantity + req[r2].docCart[1].quantity > InitStock

(* C6: contended checkout.  Of two such requests exactly one succeeds, the *)
(* other fails with InsufficientStock, and the product's final stock is    *)
(* the initial stock minus the winner's quantity.                          *)
C6_ContendedOutcome ==
    \A r1, r2 \in Reqs :
        Contended(r1, r2) =>
            \E w \in {r1, r2} :
                LET l == CHOOSE x \in {r1, r2} : x # w IN
                /\ req[w].status = 201
                /\ req[l].status = 400 /\ req[l].kind = "InsufficientStock"
                /\ stock[req[w].docCart[1].productId]
                     = InitStock - req[w].docCart[1].quantity

(* C7: conservation.  When no checkout request is in flight, what each     *)
(* product's stock has lost since the start equals the quantity of the     *)
(* product over the items of all persisted orders.                         *)
C7_StockOrderConservation ==
    (\A r \in CheckoutReqs : ~InFlight(r))
    => \A p \in Products :
          InitStock - stock[p] = OrderedQuantity(Len(orders), p)

(* C8: cart line uniqueness.  In every reachable state a user's cart holds *)
(* at most one line per product, also when the user's addToCart requests   *)
(* overlap.  (The merge of two addToCart calls made one after the other    *)
(* into one line of the summed quantity is true of the code.)              *)
C8_OneLinePerProduct ==
    \A u \in Users : \A j, k \in 1..Len(cart[u]) :
        j # k => cart[u][j].productId # cart[u][k].productId

\* An addToCart request that passed input validation and has answered.
AddAnswered(r) ==
    /\ req[r].op = "add" /\ req[r].pc = "done"
    /\ req[r].quantity >= 1 /\ req[r].frac = 0

\* The requested quantity plus the quantity of the product's line in the
\* cart the request read exceeds the product quantity the request read.
OverStock(r) ==
    req[r].quantity + LineQuantity(req[r].docCart, req[r].productId)
        > req[r].prodQ

TaxOfStored(subtotal) == MathRound(subtotal, 10)

(* C10: the persisted totals rule.  Every persisted order has subtotal =   *)
(* round2(sum of price * quantity), tax = round2(stored subtotal * 0.10)   *)
(* and total = round2(subtotal + tax).                                     *)
C10_PersistedTotals ==
    \A k \in 1..Len(orders) :
        LET o == orders[k]
            raw == RawSubtotal([j \in 1..Len(o.items) |->
                      [subtotal |-> o.items[j].price * o.items[j].quantity]]) IN
        /\ o.subtotal = MathRound(raw, 10)
        /\ o.tax = TaxOfStored(o.subtotal)
        /\ o.total = o.subtotal + o.tax

(* C12: the sequencer fails closed.  A checkout request whose read of the  *)
(* order count fails is answered with a failure, and then and ever after   *)
(* it has changed no product quantity, persisted no order and left the     *)
(* cart as it was.                                                         *)
C12_SequencerFailClosed ==
    \A r \in CheckoutReqs :
        req[r].failedAt = "count" =>
            /\ Failed(r)
            /\ req[r].applied = 0
            /\ OrdersOf(r) = {}
            /\ ~req[r].wrote

\* The order-count read of a checkout request failed after the other
\* checkout request had saved its order.
C12_Witness ==
    \E r \in CheckoutReqs :
        /\ req[r].failedAt = "count" /\ req[r].status = 500
        /\ Len(orders) > 0

(* C19: checkout terminates without retrying.  Every checkout request,     *)
(* however it interleaves with the others, reaches an answer (success or a *)
(* reported failure); it attempts the decrement of each of its cart lines  *)
(* at most once and never waits for stock to become available.             *)
C19_CheckoutTerminates ==
    /\ \A r \in 1..MaxCheckout :
          (req[r].op = "checkout") ~> (Succeeded(r) \/ Failed(r))
    /\ [](\A r \in CheckoutReqs :
            /\ req[r].applied <= Len(req[r].docCart)
            /\ req[r].pc = "decrement" => req[r].applied = req[r].i - 1)

\* A checkout request found too little stock, the other having taken it,
\* and answered at once; the other decremented each of its two lines once.
C19_Witness ==
    \E r, s \in CheckoutReqs :
        /\ req[r].pc = "done" /\ req[r].kind = "InsufficientStock"
        /\ Succeeded(s) /\ Len(req[s].docCart) = 2 /\ req[s].applied = 2

\* The getOrderById requests that have answered.
GetOrderAnswered == {r \in Reqs : req[r].op = "getOrder" /\ req[r].pc = "done"}

(* C11: order access control.  getOrderById returns the order only if it   *)
(* exists and belongs to the requester; it fails with NotFound if there is *)
(* no such order and with Unauthorized if the order is another user's, so  *)
(* no user reads another user's order.                                     *)
C11_OrderAccessControl ==
    \A r \in GetOrderAnswered :
        LET found == FindOrder(req[r].orderId) IN
        /\ found = {} => req[r].status = 404 /\ req[r].kind = "NotFound"
        /\ (\A k \in found : orders[k].userId # req[r].userId) =>
               req[r].got = <<>> /\ req[r].kind \in {"NotFound", "Unauthorized"}
        /\ req[r].got # <<>> =>
               /\ req[r].status = 200
               /\ req[r].got[1]._id = req[r].orderId
               /\ req[r].got[1].userId = req[r].userId

\* The part of C11 that is true of the code: an order is returned only to
\* its owner, and an id that is an ObjectId gets NotFound or Unauthorized.
NoForeignOrderRead ==
    \A r \in GetOrderAnswered :
        /\ req[r].got # <<>> =>
               /\ req[r].status = 200
               /\ req[r].got[1]._id = req[r].orderId
               /\ req[r].got[1].userId = req[r].userId
        /\ req[r].got = <<>> =>
               \/ req[r].kind \in {"NotFound", "Unauthorized"}
               \/ req[r].orderId = Malformed /\ req[r].status = 500

\* The product is one that may be bought.
Purchasable(p) == prod[p].status = "active"

(* C13: only active products are purchasable.  No order is persisted with  *)
(* an item whose product is inactive or discontinued when the order is     *)
(* saved, and no addToCart request gets past its look-up of a product that *)
(* is inactive or discontinued.                                            *)
C13_OnlyActivePurchasable ==
    [][/\ Len(orders') > Len(orders) =>
             \A j \in 1..Len(orders'[Len(orders')].items) :
                 Purchasable(orders'[Len(orders')].items[j].productId)
       /\ \A r \in Reqs :
             (req[r].op = "add" /\ req[r].pc = "findProduct"
                 /\ req'[r].pc = "save") =>
             Purchasable(req[r].productId)]_vars

(* C14: order snapshot immutability.  Once an order is persisted, its      *)
(* items and its subtotal, tax and total never change under any later      *)
(* operation (updateProduct, deleteProduct, the cart operations, a later   *)
(* checkout), and no operation removes an order.                           *)
C14_OrderSnapshotImmutable ==
    [][/\ Len(orders') >= Len(orders)
       /\ \A k \in 1..Len(orders) :
             /\ orders'[k]._id = orders[k]._id
             /\ orders'[k].items = orders[k].items
             /\ orders'[k].subtotal = orders[k].subtotal
             /\ orders'[k].tax = orders[k].tax
             /\ orders'[k].total = orders[k].total]_vars

\* A persisted order holds the name and price its product had at checkout,
\* the product having been given another name and price since.
C14_Witness ==
    \E k \in 1..Len(orders) : \E j \in 1..Len(orders[k].items) :
        LET item == orders[k].items[j] IN
        /\ item.price = Price[item.productId]
        /\ item.productName = ProductName[item.productId]
        /\ prod[item.productId].price # item.price
        /\ prod[item.productId].productName # item.productName

CartOps == {"add", "update", "remove", "clear", "getCart"}

(* C15: cart operations leave inventory and orders unchanged.  No step of  *)
(* an addToCart, updateCartQuantity, removeFromCart, clearCart or getCart  *)
(* request, successful or not, changes a product's quantity or creates or  *)
(* changes an order; a product's quantity changes only in a step of a      *)
(* checkout or of a product edit.                                          *)
C15_CartOpsFrame ==
    [][/\ \A r \in Reqs :
             (req'[r] # req[r] /\ req'[r].op \in CartOps) =>
             stock' = stock /\ orders' = orders
       /\ stock' # stock =>
             \E r \in Reqs : /\ req'[r] # req[r]
                              /\ req'[r].op \in {"checkout", "updateProduct"}]_vars

\* An addToCart and an updateCartQuantity request have both changed the
\* cart; the stock is what it was and there is no order.
C15_Witness ==
    /\ \E r, s \in Reqs :
          /\ req[r].op = "add" /\ Succeeded(r) /\ req[r].wrote
          /\ req[s].op = "update" /\ Succeeded(s) /\ req[s].wrote
    /\ stock = [p \in Products |-> ShopStock]
    /\ orders = <<>>

(* C16: updateCartQuantity on a missing line.  For a positive integer      *)
(* quantity, if the user's cart has no line for the product, the request   *)
(* fails with LineNotFound, whatever the product's stock and whether or    *)
(* not the product still exists; the cart is unchanged and no line is      *)
(* created.                                                                *)
C16_UpdateMissingLine ==
    \A r \in Reqs :
        (/\ req[r].op = "update" /\ req[r].pc = "done"
         /\ req[r].quantity >= 1 /\ req[r].frac = 0
         /\ FindLine(req[r].docCart, req[r].productId) = 0) =>
        /\ req[r].status = 404 /\ req[r].kind = "LineNotFound"
        /\ ~req[r].wrote

\* The cart the request read has a line whose product was gone by then.
ReadMissingProduct(r) == \E k \in 1..Len(req[r].pop) : ~req[r].pop[k].found

(* C17: checkout precondition precedence.  The failure of a checkout is    *)
(* that of the first failing precondition: EmptyCart for an empty cart,    *)
(* then ProductNotFound if the product of any cart line does not exist     *)
(* (whatever the line's place in the cart, and whatever the stock of the   *)
(* other lines), then InsufficientStock; a missing product never yields a  *)
(* generic internal error.                                                 *)
C17_CheckoutPrecedence ==
    \A r \in CheckoutReqs :
        req[r].pc = "done" =>
            /\ req[r].docCart = <<>> =>
                  req[r].status = 400 /\ req[r].kind = "EmptyCart"
            /\ ReadMissingProduct(r) =>
                  req[r].status = 404 /\ req[r].kind = "ProductNotFound"
            /\ req[r].kind = "InsufficientStock" =>
                  /\ ~ReadMissingProduct(r)
                  /\ \E k \in 1..Len(req[r].docCart) :
                        req[r].docCart[k].quantity > req[r].prodQ

\* The quantity in the body of request r is <= 0 or not an integer.
BadQuantity(r) == 2 * req[r].quantity + req[r].frac <= 0 \/ req[r].frac # 0

(* C18: cart quantities are positive integers.  addToCart and              *)
(* updateCartQuantity reject, with status 400 and the cart unchanged, any  *)
(* quantity that is <= 0 or not an integer, so every cart line of every    *)
(* user has an integer quantity of at least 1.                             *)
C18_PositiveIntegerQuantities ==
    /\ \A r \in Reqs :
          (req[r].op \in {"add", "update"} /\ BadQuantity(r)) =>
          /\ req[r].pc = "done" /\ req[r].status = 400
          /\ req[r].kind \in {"InvalidQuantity", "Required"}
          /\ ~req[r].wrote
    /\ \A u \in Users : \A k \in 1..Len(cart[u]) :
          cart[u][k].quantity \in Nat /\ cart[u][k].quantity >= 1

\* A quantity of 1.5 was refused by addToCart and one of -1 by
\* updateCartQuantity, the user's cart holding a line.
C18_Witness ==
    \E r, s \in Reqs :
        /\ req[r].op = "add" /\ req[r].quantity = 1 /\ req[r].frac = 1
        /\ req[r].kind = "InvalidQuantity"
        /\ req[s].op = "update" /\ req[s].quantity = -1
        /\ req[s].kind = "InvalidQuantity"
        /\ req[s].userId = req[r].userId
        /\ Len(cart[req[r].userId]) > 0

(* C20: getCart has no failure kind.  For an existing user getCart         *)
(* succeeds in every reachable state, also after a product of one of the   *)
(* user's cart lines has been deleted, and returns the cart lines with the *)
(* total of the products' current prices times the line quantities.        *)
C20_GetCartSucceeds ==
    \A r \in Reqs :
        (req[r].op = "getCart" /\ req[r].pc = "done") =>
        /\ req[r].status = 200
        /\ req[r].total = CartTotal(req[r].docCart, req[r].pop)

\* Order o holds the cart lines c in their stored order, with the same
\* productId and quantity per line.
ItemsAreLines(o, c) ==
    /\ Len(o.items) = Len(c)
    /\ \A k \in 1..Len(c) :
          /\ o.items[k].productId = c[k].productId
          /\ o.items[k].quantity = c[k].quantity

(* C21: the effect of a successful checkout with no concurrent requests.   *)
(* Exactly one order is persisted, with status pending and paymentStatus   *)
(* pending, its items the cart lines read at the start of the request in   *)
(* their stored order; each product's quantity is reduced by exactly its   *)
(* line quantity, the decrements coming only after the order was           *)
(* persisted; and the user's cart is empty afterwards.                     *)
C21_CheckoutEffect ==
    [][\A r \in Reqs :
         (req[r].op = "checkout" /\ req'[r] # req[r]) =>
         LET rec == req[r] IN
         /\ Len(orders') # Len(orders) =>
               /\ rec.pc = "saveOrder" /\ OrdersOf(r) = {}
               /\ orders' = Append(orders, orders'[Len(orders')])
               /\ LET o == orders'[Len(orders')] IN
                     /\ o.userId = rec.userId
                     /\ o.status = "pending" /\ o.paymentStatus = "pending"
                     /\ rec.docCart = cart[rec.userId]
                     /\ ItemsAreLines(o, rec.docCart)
         /\ stock' # stock =>
               /\ rec.pc = "decrement" /\ OrdersOf(r) # {}
               /\ rec.applied = rec.i - 1
         /\ rec.pc = "decrement" =>
               LET line == rec.docCart[rec.i] IN
               stock' = [stock EXCEPT ![line.productId] = @ - line.quantity]
         /\ req'[r].status = 201 =>
               /\ Cardinality(OrdersOf(r)) = 1
               /\ rec.applied = Len(rec.docCart)
               /\ cart'[rec.userId] = <<>>]_vars

\* A checkout of a cart of two lines has succeeded: its order holds the two
\* lines in their order, the stock is down by 2 of p1 and 1 of p2, and the
\* cart is empty.
C21_Witness ==
    \E r \in CheckoutReqs :
        /\ Succeeded(r) /\ Cardinality(OrdersOf(r)) = 1
        /\ req[r].docCart = <<Line("p2", 1), Line("p1", 2)>>
        /\ ItemsAreLines(orders[CHOOSE k \in OrdersOf(r) : TRUE], req[r].docCart)
        /\ stock = [p \in Products |-> IF p = "p1" THEN InitStock - 2
                                                 ELSE InitStock - 1]
        /\ cart[req[r].userId] = <<>>

(* C22: no cart line is lost by checkout.  When a user's addToCart or      *)
(* updateCartQuantity request succeeds while that user's checkout is in    *)
(* flight, every line and quantity the checkout's clear removes from the   *)
(* cart is contained in the order the checkout committed: a line added     *)
(* during the checkout is in the order or still in the cart.               *)
C22_NoCartLineLost ==
    [][\A r \in Reqs :
         (/\ req[r].op = "checkout" /\ req[r].pc = "saveUser"
          /\ cart'[req[r].userId] # cart[req[r].userId]) =>
         /\ OrdersOf(r) # {}
         /\ \A k \in OrdersOf(r) : \A p \in Products :
               QuantityOf(cart[req[r].userId], p) <= QuantityOf(orders[k].items, p)]_vars

====
